---- MODULE Spec2Model ----
(***************************************************************************)
(* Model of src/index.ts: Mutex (run / next) and RwLock (write / read).     *)
(*                                                                         *)
(* One step of the model is one uninterrupted run of JavaScript code: a    *)
(* call of run / write / read (with the synchronous prefix of every        *)
(* handler it starts), the settlement of a handler's promise, or one       *)
(* promise reaction (the continuation of vvvHandler, a .then callback).    *)
(* A handler identity h is a slot of Ops; a slot whose operation is over   *)
(* (or that was never used) can be taken by a new call, so calls keep      *)
(* arriving without end while the state stays finite.                       *)
(***************************************************************************)
EXTENDS Integers, Sequences, FiniteSets

----------------------------------------------------------------------------
(* Bounds *)

NOps == 3

Ops == 1..NOps

\* a batch needs a member in flight until it is released, and one released
\* batch may still wait for the mutex's .then callback
BatchIds == 1..(NOps + 1)

Null == 0

\* the value as the previous lock holder left it
Unset == 0

\* the value as a read handler set it
ByRead == NOps + 1

VARIABLES
    running,      \* Mutex.running
    queue,        \* Mutex.queue: <<"w", h>> is a run/write item, <<"b", b>> a read batch item
    value,        \* the protected value, by who set it last: a run/write handler h,
                  \* ByRead, or Unset while it is as the previous lock holder left it
    remaining,    \* RwLock.remaining
    tailFxList,   \* RwLock.tailFxList: a batch id or Null
    batchDone,    \* RwLock.batchDone: the batch whose promise it resolves, or Null
    fxList,       \* the fxList array of each batch
    bstate,       \* promise of each batch's mutex item: free, queued, running, released
    kind,         \* which call submitted h: none, run, write, read
    pc,           \* where h's operation is: idle, queued, running, settled, resolved
    result,       \* outcome of h's handler: none, ok, err
    promise,      \* promise returned by the call: none, pending, resolved, rejected
    rbatch,       \* the fxList captured by the .then callback of read h
    thrown,       \* internal errors thrown so far
    before,       \* history: operations submitted before h whose handler has not settled
                  \* (reads before a read left out: they are not ordered)
    fresh         \* history: batches created after the last call of write

vars == <<running, queue, value, remaining, tailFxList, batchDone, fxList, bstate,
          kind, pc, result, promise, rbatch, thrown, before, fresh>>

----------------------------------------------------------------------------
(* Helpers *)

Min(S) == CHOOSE x \in S : \A y \in S : x <= y

Range(s) == {s[i] : i \in 1..Len(s)}

\* a slot a new call may take
Free(h) == pc[h] = "idle"

NextSlot == Min({h \in Ops : Free(h)})

\* the handler of h has started and not yet settled
Executing(h) == pc[h] = "running"

FreeBatch == Min({b \in BatchIds : bstate[b] = "free"})

Init ==
    /\ running = FALSE
    /\ queue = <<>>
    /\ value = Unset
    /\ remaining = 0
    /\ tailFxList = Null
    /\ batchDone = Null
    /\ fxList = [b \in BatchIds |-> <<>>]
    /\ bstate = [b \in BatchIds |-> "free"]
    /\ kind = [h \in Ops |-> "none"]
    /\ pc = [h \in Ops |-> "idle"]
    /\ result = [h \in Ops |-> "none"]
    /\ promise = [h \in Ops |-> "none"]
    /\ rbatch = [h \in Ops |-> Null]
    /\ thrown = {}
    /\ before = [h \in Ops |-> {}]
    /\ fresh = {}

----------------------------------------------------------------------------
(* Mutex *)

\* faulty variant of shift: queue.pop(), the last item and the rest
shiftLast(q) == [head |-> q[Len(q)], rest |-> SubSeq(q, 1, Len(q) - 1)]

\* queue.shift(): the first item and the rest
shift(q) == [head |-> Head(q), rest |-> Tail(q)]

\* faulty variant of nextRunning: next() does not mark the mutex running
nextRunningUnset == FALSE

\* this.running = true, in next()
nextRunning == TRUE

\* faulty variant of startRemaining: one completion too many is awaited
startRemainingExtra(len) == len + 1

\* this.remaining = fxList.length when the batch item starts
startRemaining(len) == len

\* faulty variant of runCallsNext: run() only pushes the item
runCallsNextNever(r) == FALSE

\* faulty variant of runCallsNext: run() calls next() whatever running is
runCallsNextAlways(r) == TRUE

\* if(!this.running) in run(): whether run() calls next()
runCallsNext(r) == ~r

\* Mutex.next() entered with running = r and queue = q; p, bs and fl are pc,
\* bstate and fxList as the calling code has left them.  fx() runs the
\* synchronous prefix of the handler(s) it starts, which may set the value.
next(r, q, p, bs, fl) ==
    IF r
    THEN /\ thrown' = thrown \cup {"call to next() while still running"}
         /\ running' = r /\ queue' = q /\ pc' = p /\ bstate' = bs
         /\ UNCHANGED <<value, remaining, batchDone>>
    ELSE IF q = <<>>
    THEN /\ running' = r /\ queue' = q /\ pc' = p /\ bstate' = bs
         /\ UNCHANGED <<value, remaining, batchDone, thrown>>
    ELSE LET fx == shift(q).head IN
         /\ running' = nextRunning
         /\ queue' = shift(q).rest
         /\ thrown' = thrown
         /\ IF fx[1] = "w"
            THEN /\ pc' = [p EXCEPT ![fx[2]] = "running"]
                 /\ \E v \in {value, fx[2]} : value' = v
                 /\ bstate' = bs
                 /\ UNCHANGED <<remaining, batchDone>>
            ELSE LET b == fx[2]
                     members == Range(fl[b])
                 IN /\ batchDone' = b
                    /\ remaining' = startRemaining(Len(fl[b]))
                    /\ pc' = [h \in Ops |-> IF h \in members THEN "running" ELSE p[h]]
                    /\ \E v \in {value, ByRead} : value' = v
                    /\ bstate' = [bs EXCEPT ![b] = "running"]

\* Mutex.run(handler): push the item, start it if the mutex is not running
run(item, p, bs, fl) ==
    LET q == Append(queue, item) IN
    IF runCallsNext(running)
    THEN next(running, q, p, bs, fl)
    ELSE /\ queue' = q /\ pc' = p /\ bstate' = bs
         /\ UNCHANGED <<running, value, remaining, batchDone, thrown>>

\* a call takes slot h: its promise is pending, and the operations whose
\* handlers have not settled yet were submitted before it
Submit(h, k) ==
    /\ kind' = [kind EXCEPT ![h] = k]
    /\ result' = [result EXCEPT ![h] = "none"]
    /\ promise' = [promise EXCEPT ![h] = "pending"]
    /\ before' = [before EXCEPT ![h] = {j \in Ops : /\ pc[j] \in {"queued", "running"}
                                                     /\ ~(k = "read" /\ kind[j] = "read")}]

\* mutex.run(handler) by a user of a plain Mutex
Run(h) ==
    /\ Free(h) /\ h = NextSlot
    /\ Submit(h, "run")
    /\ run(<<"w", h>>, [pc EXCEPT ![h] = "queued"], bstate, fxList)
    /\ UNCHANGED <<tailFxList, fxList, rbatch, fresh>>

----------------------------------------------------------------------------
(* Handlers *)

\* h's operation is over: its slot keeps only the promise the caller holds
Finish(h) ==
    /\ kind' = [kind EXCEPT ![h] = "none"]
    /\ result' = [result EXCEPT ![h] = "none"]
    /\ rbatch' = [rbatch EXCEPT ![h] = Null]
    /\ before' = [before EXCEPT ![h] = {}]

\* the promise returned by handler h settles: fulfilled (ok) or rejected (err).
\* When no handler is left executing the lock holder has finished with the
\* value: from then on the value is the one the previous holder left.
HandlerSettle(h, o) ==
    /\ Executing(h)
    /\ pc' = [pc EXCEPT ![h] = "settled"]
    /\ result' = [result EXCEPT ![h] = o]
    /\ before' = [j \in Ops |-> before[j] \ {h}]
    /\ value' = IF \E j \in Ops \ {h} : Executing(j) THEN value ELSE Unset
    /\ UNCHANGED <<running, queue, remaining, tailFxList, batchDone, fxList,
                   bstate, kind, promise, rbatch, thrown, fresh>>

\* a handler resumed after a suspension point sets the value
SetValue(h) ==
    /\ Executing(h)
    /\ value' = IF kind[h] = "read" THEN ByRead ELSE h
    /\ value' # value
    /\ UNCHANGED <<running, queue, remaining, tailFxList, batchDone, fxList, bstate,
                   kind, pc, result, promise, rbatch, thrown, before, fresh>>

\* faulty variant of releases: only the .then callback frees the mutex
releasesOnSuccess(o) == o = "ok"

\* resolve(ret) in .then, reject(err) in .catch
settle(o) == IF o = "ok" THEN "resolved" ELSE "rejected"

\* .then and .catch of run() both end with this.running = false; this.next()
releases(o) == TRUE

\* the .then / .catch callback that run() attached to handler h's promise
MutexSettle(h) ==
    /\ kind[h] \in {"run", "write"}
    /\ pc[h] = "settled"
    /\ promise' = [promise EXCEPT ![h] = settle(result[h])]
    /\ IF releases(result[h])
       THEN next(FALSE, queue, [pc EXCEPT ![h] = "idle"], bstate, fxList)
       ELSE /\ pc' = [pc EXCEPT ![h] = "idle"]
            /\ UNCHANGED <<running, queue, value, remaining, batchDone, bstate, thrown>>
    /\ Finish(h)
    /\ UNCHANGED <<tailFxList, fxList, fresh>>

----------------------------------------------------------------------------
(* RwLock *)

\* faulty variant of writeTail: write() leaves tailFxList alone
writeTailKept == tailFxList

\* this.tailFxList = null, in write()
writeTail == Null

\* RwLock.write(handler)
write(h) ==
    /\ Free(h) /\ h = NextSlot
    /\ Submit(h, "write")
    /\ tailFxList' = writeTail
    /\ run(<<"w", h>>, [pc EXCEPT ![h] = "queued"], bstate, fxList)
    /\ fresh' = {}
    /\ UNCHANGED <<fxList, rbatch>>

\* if(this.tailFxList === null): the read starts a new batch
startsBatch(tail) == tail = Null

\* faulty variant of tailInQueue: a read always appends to the tail batch
tailInQueueAlways(q) == TRUE

\* if(this.mutex.getQueueLength() > 0): the tail batch is still in the queue
tailInQueue(q) == Len(q) > 0

\* faulty variant of joinRemaining: a joining read is not counted
joinRemainingSkipped(rem) == rem

\* this.remaining++ when a read joins the running batch
joinRemaining(rem) == rem + 1

\* RwLock.read(handler)
read(h) ==
    /\ Free(h) /\ h = NextSlot
    /\ Submit(h, "read")
    /\ IF startsBatch(tailFxList)
       THEN LET b == FreeBatch
                fl == [fxList EXCEPT ![b] = <<h>>]
            IN /\ \E c \in BatchIds : bstate[c] = "free"
               /\ tailFxList' = b
               /\ fresh' = fresh \cup {b}
               /\ fxList' = fl
               /\ rbatch' = [rbatch EXCEPT ![h] = b]
               /\ run(<<"b", b>>, [pc EXCEPT ![h] = "queued"],
                      [bstate EXCEPT ![b] = "queued"], fl)
       ELSE IF tailInQueue(queue)
       THEN /\ fxList' = [fxList EXCEPT ![tailFxList] = Append(@, h)]
            /\ pc' = [pc EXCEPT ![h] = "queued"]
            /\ rbatch' = [rbatch EXCEPT ![h] = tailFxList]
            /\ UNCHANGED <<running, queue, value, remaining, tailFxList, batchDone,
                           bstate, thrown, fresh>>
       ELSE /\ remaining' = joinRemaining(remaining)
            /\ rbatch' = [rbatch EXCEPT ![h] = tailFxList]
            /\ pc' = [pc EXCEPT ![h] = "running"]
            /\ \E v \in {value, ByRead} : value' = v
            /\ UNCHANGED <<running, queue, tailFxList, batchDone, fxList, bstate, thrown,
                           fresh>>

\* faulty variant of vvvSettle: the read's promise is left to the batch
vvvSettleLater(o) == "pending"

\* resolve(await handler(this.value)) in the try block of vvvHandler,
\* reject(err) in its catch block
vvvSettle(o) == settle(o)

\* vvvHandler resumes after `await handler(this.value)` and settles the
\* promise that read() returned; vvvHandler itself always fulfils
vvvHandler(h) ==
    /\ kind[h] = "read"
    /\ pc[h] = "settled"
    /\ pc' = [pc EXCEPT ![h] = "resolved"]
    /\ promise' = [promise EXCEPT ![h] = vvvSettle(result[h])]
    /\ UNCHANGED <<running, queue, value, remaining, tailFxList, batchDone, fxList,
                   bstate, kind, result, rbatch, thrown, before, fresh>>

\* faulty variant of thenRuns: vvvHandler lets a failure of the handler
\* through, and .then skips its callback
thenRunsOnSuccess(o) == o = "ok"

\* fx().then(...): vvvHandler catches every failure, so the callback runs
\* whatever the outcome o of the handler was
thenRuns(o) == TRUE

\* this.remaining-- in the .then callback of a batch member
thenRemaining(rem) == rem - 1

\* faulty variant of thenTail: the last member leaves tailFxList alone
thenTailKept(tail, fl) == tail

\* faulty variant of thenTail: the last member always clears tailFxList
thenTailCleared(tail, fl) == Null

\* if(this.tailFxList === fxList) this.tailFxList = null
thenTail(tail, fl) == IF tail = fl THEN Null ELSE tail

\* the .then callback attached to vvvHandler() of read h (the batch loop's
\* and the joined read's are the same code)
ReadThen(h) ==
    /\ kind[h] = "read"
    /\ pc[h] = "resolved"
    /\ thenRuns(result[h])
    /\ pc' = [pc EXCEPT ![h] = "idle"]
    /\ remaining' = thenRemaining(remaining)
    /\ IF remaining' = 0
       THEN /\ tailFxList' = thenTail(tailFxList, rbatch[h])
            /\ IF batchDone = Null
               THEN /\ thrown' = thrown \cup
                          {"batchDone() should be set during mutex lock by read batch"}
                    /\ bstate' = bstate
               ELSE /\ thrown' = thrown
                    \* batchDone(): resolving a promise twice has no effect
                    /\ bstate' = IF bstate[batchDone] = "running"
                                 THEN [bstate EXCEPT ![batchDone] = "released"]
                                 ELSE bstate
       ELSE UNCHANGED <<tailFxList, thrown, bstate>>
    /\ Finish(h)
    /\ UNCHANGED <<running, queue, value, batchDone, fxList, promise, fresh>>

\* the .then callback that run() attached to the promise of batch b's item
BatchSettle(b) ==
    /\ bstate[b] = "released"
    /\ next(FALSE, queue, pc, [bstate EXCEPT ![b] = "free"], fxList)
    /\ fxList' = [fxList EXCEPT ![b] = <<>>]
    /\ fresh' = fresh \ {b}
    /\ UNCHANGED <<tailFxList, kind, result, promise, rbatch, before>>

----------------------------------------------------------------------------
(* Specifications *)

\* users of an RwLock
Next ==
    \/ \E h \in Ops : write(h)
    \/ \E h \in Ops : read(h)
    \/ \E h \in Ops : \E o \in {"ok", "err"} : HandlerSettle(h, o)
    \/ \E h \in Ops : SetValue(h)
    \/ \E h \in Ops : MutexSettle(h)
    \/ \E h \in Ops : vvvHandler(h)
    \/ \E h \in Ops : ReadThen(h)
    \/ \E b \in BatchIds : BatchSettle(b)

Spec == Init /\ [][Next]_vars

\* users of a plain Mutex
NextMutex ==
    \/ \E h \in Ops : Run(h)
    \/ \E h \in Ops : \E o \in {"ok", "err"} : HandlerSettle(h, o)
    \/ \E h \in Ops : SetValue(h)
    \/ \E h \in Ops : MutexSettle(h)

SpecMutex == Init /\ [][NextMutex]_vars

\* users of an RwLock whose handlers all settle, on an event loop that runs
\* every pending promise reaction; calls may or may not keep coming
SpecLive ==
    /\ Init /\ [][Next]_vars
    /\ \A h \in Ops : WF_vars(\E o \in {"ok", "err"} : HandlerSettle(h, o))
    /\ \A h \in Ops : WF_vars(MutexSettle(h))
    /\ \A h \in Ops : WF_vars(vvvHandler(h))
    /\ \A h \in Ops : WF_vars(ReadThen(h))
    /\ \A b \in BatchIds : WF_vars(BatchSettle(b))

TypeOK ==
    /\ running \in BOOLEAN
    /\ remaining \in Int
    /\ tailFxList \in BatchIds \cup {Null}
    /\ batchDone \in BatchIds \cup {Null}
    /\ value \in Ops \cup {Unset, ByRead}
    /\ \A h \in Ops : pc[h] \in {"idle", "queued", "running", "settled", "resolved"}

----------------------------------------------------------------------------
(* Properties *)

Writes == {h \in Ops : kind[h] = "write"}

Reads == {h \in Ops : kind[h] = "read"}

\* C1: while a write handler is executing no other handler of the RwLock is
\* executing, and read handlers execute together only with reads of their
\* own batch
RwExclusion ==
    \A h, j \in Ops :
        (h # j /\ Executing(h) /\ Executing(j))
            => /\ h \in Reads /\ j \in Reads
               /\ rbatch[h] = rbatch[j]

\* a write executes while a read and another write wait behind it
RwExclusionWitness ==
    \E w \in Writes, r \in Reads, x \in Writes :
        /\ Executing(w)
        /\ pc[r] = "queued" /\ pc[x] = "queued"
        /\ w \in before[r]

\* C2: at most one handler passed to Mutex.run is executing at any time
MutexExclusion ==
    \A h, j \in Ops : (Executing(h) /\ Executing(j)) => h = j

\* one handler executes while two others wait in the queue
MutexExclusionWitness ==
    \E h \in Ops : Executing(h) /\ Len(queue) = 2 /\ running

\* C3: handlers of Mutex.run start in the order of the calls: when a handler
\* has started, every handler submitted before it has settled
MutexFifo ==
    \A h \in Ops : pc[h] \in {"running", "settled"} => before[h] = {}

\* a handler executes after an earlier one finished, with a later one
\* waiting behind it
MutexFifoWitness ==
    \E h, j, k \in Ops :
        /\ Executing(h)
        /\ pc[j] = "idle" /\ promise[j] \in {"resolved", "rejected"}
        /\ pc[k] = "queued" /\ before[k] = {h}

\* C4: a read submitted after a call of write joins no batch created before
\* that call, and its handler is not started before that write's handler
\* has settled
ReadAfterWrite ==
    /\ [](\A r \in Reads : pc[r] \in {"running", "settled", "resolved"}
              => before[r] \cap Writes = {})
    /\ [][\A h \in Ops : (pc[h] = "idle" /\ kind'[h] = "read") => rbatch'[h] \in fresh']_vars

\* a read waits in a batch of its own behind a write that waits for an
\* older batch
ReadAfterWriteWitness ==
    \E r1 \in Reads, w \in Writes, r \in Reads :
        /\ Executing(r1)
        /\ pc[w] = "queued" /\ r1 \in before[w]
        /\ pc[r] = "queued" /\ w \in before[r]
        /\ rbatch[r] # rbatch[r1]

\* C5: every write that has to wait eventually starts executing, whatever
\* reads keep being submitted after it
WritersNeverStarve ==
    \A w \in Ops : (kind[w] = "write" /\ pc[w] = "queued") ~> Executing(w)

\* a write waits behind a running batch of two reads, one of them about to
\* leave its slot to a read that arrives later
WritersNeverStarveWitness ==
    \E w \in Writes, r1 \in Reads, r2 \in Reads :
        /\ r1 # r2 /\ rbatch[r1] = rbatch[r2]
        /\ Executing(r1) /\ pc[r2] = "resolved"
        /\ pc[w] = "queued" /\ r1 \in before[w]

\* C6: the promise returned by read settles when the read's own handler has
\* settled: vvvHandler can resume whatever the other members of the batch
\* do, and it settles the promise with the handler's outcome before the
\* batch's bookkeeping runs
ReadSettlesAlone ==
    \A r \in Reads :
        /\ pc[r] = "settled" => ENABLED vvvHandler(r)
        /\ pc[r] = "resolved" => promise[r] = settle(result[r])

\* the promise of one read is settled while another member of its batch is
\* still executing and the batch still holds the mutex
ReadSettlesAloneWitness ==
    \E r1 \in Reads, r2 \in Reads :
        /\ rbatch[r1] = rbatch[r2]
        /\ Executing(r1)
        /\ pc[r2] = "resolved" /\ promise[r2] \in {"resolved", "rejected"}
        /\ remaining = 2 /\ bstate[rbatch[r2]] = "running"

\* C7: a read submitted while a batch is running that no write call has
\* followed starts executing within the call, in that batch, and no other
\* handler has to settle for it
ConcurrentReads ==
    [][\A h \in Ops : \A b \in BatchIds :
          (pc[h] = "idle" /\ kind'[h] = "read" /\ bstate[b] = "running" /\ b \in fresh)
              => /\ pc'[h] = "running"
                 /\ rbatch'[h] = b
                 /\ \A j \in Ops \ {h} : pc'[j] = pc[j]]_vars

\* a read that joined the running batch has settled before the read that
\* started the batch
ConcurrentReadsWitness ==
    \E b \in BatchIds, r1 \in Reads, r2 \in Reads :
        /\ bstate[b] = "running" /\ fxList[b] = <<r1>>
        /\ r2 # r1 /\ rbatch[r2] = b
        /\ Executing(r1) /\ pc[r2] = "resolved"

\* C8: write handlers execute one at a time, in the order of the calls, and
\* while one executes the value is as the previous holder of the lock left
\* it or as this write set it
SerializedWrites ==
    \A w \in Writes :
        Executing(w) => /\ before[w] \cap Writes = {}
                        /\ \A j \in Writes : Executing(j) => j = w
                        /\ value \in {Unset, w}

\* a write has set the value after an earlier operation finished, and
\* another write waits behind it
SerializedWritesWitness ==
    \E w \in Writes, x \in Writes, j \in Ops :
        /\ Executing(w) /\ value = w
        /\ pc[x] = "queued" /\ w \in before[x]
        /\ pc[j] = "idle" /\ promise[j] # "none"

\* C9: when a handler passed to Mutex.run fails, the promise of that call is
\* rejected and the mutex goes on as after a success: it starts the next
\* queued item, or becomes idle when the queue is empty; it is never left
\* running with nothing executing
MutexFailure ==
    /\ [](running => \E h \in Ops : pc[h] \in {"running", "settled"})
    /\ [][\A h \in Ops :
            (pc[h] = "settled" /\ pc'[h] = "idle")
                => /\ promise'[h] = IF result[h] = "err" THEN "rejected" ELSE "resolved"
                   /\ IF queue = <<>>
                      THEN ~running' /\ queue' = <<>>
                      ELSE /\ running'
                           /\ queue' = Tail(queue)
                           /\ pc'[Head(queue)[2]] = "running"]_vars

\* after a failed handler the mutex runs a next one, with one more waiting
MutexFailureWitness ==
    \E h, j, k \in Ops :
        /\ pc[h] = "idle" /\ promise[h] = "rejected"
        /\ running /\ Executing(j)
        /\ pc[k] = "queued" /\ queue = <<<<"w", k>>>>

\* C10: a read handler that fails rejects the promise of its own call only;
\* its .then callback still runs and decrements remaining, no other
\* operation is touched, and the batch is released when the count reaches 0
ReadFailureLocal ==
    /\ [](\A r \in Reads :
            (result[r] = "err" /\ pc[r] = "resolved")
                => promise[r] = "rejected" /\ ENABLED ReadThen(r))
    /\ [][\A h \in Ops :
            (kind[h] = "read" /\ result[h] = "err")
                => /\ (pc[h] = "settled" /\ pc'[h] = "resolved")
                        => /\ promise' = [promise EXCEPT ![h] = "rejected"]
                           /\ remaining' = remaining
                           /\ \A j \in Ops \ {h} : pc'[j] = pc[j]
                   /\ (pc[h] = "resolved" /\ pc'[h] = "idle")
                        => /\ promise' = promise
                           /\ remaining' = remaining - 1
                           /\ remaining' = 0 => bstate'[rbatch[h]] = "released"
                           /\ \A j \in Ops \ {h} : pc'[j] = pc[j]]_vars

\* the only read of a batch has failed and finished, the batch is released
\* and a write waits for the mutex to pass on
ReadFailureLocalWitness ==
    \E b \in BatchIds, w \in Writes, r \in Ops :
        /\ bstate[b] = "released"
        /\ pc[w] = "queued"
        /\ pc[r] = "idle" /\ promise[r] = "rejected"
        /\ \A j \in Ops \ {w, r} : promise[j] = "none"

\* Mutex.isIdle(): return !this.running
isIdle == ~running

\* Mutex.getQueueLength(): return this.queue.length
getQueueLength == Len(queue)

\* the step is a call of run, write or read for the operation h
Call(h) == pc[h] = "idle" /\ pc'[h] # "idle"

\* the lock as it was constructed, as far as later calls can tell
LockInitial ==
    /\ ~running
    /\ queue = <<>>
    /\ remaining = 0
    /\ tailFxList = Null

\* no operation is in flight and no callback of the lock is pending
Quiet ==
    /\ \A h \in Ops : pc[h] = "idle"
    /\ \A b \in BatchIds : bstate[b] = "free"

\* C11 as stated: as soon as the promise of every submitted operation has
\* settled, the lock is back in its initial state
SettledIsInitial ==
    (\A h \in Ops : promise[h] # "pending") => LockInitial

\* C11, amended: every submitted operation has its promise settled in the
\* end, a handler is started only for an operation that waits or is being
\* submitted, and once every operation has settled and the callbacks of the
\* lock have run the lock is back in its initial state
NoLostOperation ==
    /\ \A h \in Ops : (promise[h] = "pending") ~> (promise[h] \in {"resolved", "rejected"})
    /\ [](Quiet => LockInitial)
    /\ [][\A h \in Ops : (pc'[h] = "running" /\ pc[h] # "running")
                              => pc[h] \in {"queued", "idle"}]_vars

\* the lock is quiet again after a read batch and a write have run
NoLostOperationWitness ==
    /\ Quiet
    /\ batchDone # Null
    /\ \E h, j \in Ops : promise[h] = "resolved" /\ promise[j] = "rejected"

\* C12 as stated: isIdle() is false exactly while a handler is executing,
\* started and not yet settled
IdleIffNotExecuting ==
    ~isIdle <=> \E h \in Ops : Executing(h)

\* C12, amended: a new Mutex is idle, and isIdle() is false exactly from the
\* start of a handler until the callback that run() attached to the handler's
\* promise has run, which is after the handler has settled
IdleIffNotOccupied ==
    ~isIdle <=> \E h \in Ops : pc[h] \in {"running", "settled"}

\* the mutex is idle again after a handler has run
IdleIffNotOccupiedWitness ==
    /\ isIdle
    /\ \E h \in Ops : promise[h] \in {"resolved", "rejected"}

\* C13 as stated: a call of run, write or read returns a pending promise and
\* only enqueues, no part of the handler is executed during the call
CallsOnlyEnqueue ==
    [][\A h \in Ops : Call(h) =>
          /\ promise'[h] = "pending"
          /\ pc'[h] = "queued"
          /\ value' = value]_vars

\* C13, amended: a call returns a pending promise; the handler is deferred
\* only when the mutex is occupied, and then the call starts no handler and
\* has no effect on the value; otherwise the handler starts within the call,
\* which happens on an idle mutex and for a read that joins the running batch
CallsDeferWhenBusy ==
    [][\A h \in Ops : Call(h) =>
          /\ promise'[h] = "pending"
          /\ pc'[h] \in {"queued", "running"}
          /\ pc'[h] = "queued" =>
                /\ ~isIdle
                /\ value' = value
                /\ \A j \in Ops : Executing(j)' => Executing(j)
          /\ pc'[h] = "running" =>
                \/ isIdle
                \/ /\ kind'[h] = "read"
                   /\ tailFxList # Null
                   /\ rbatch'[h] = tailFxList
                   /\ bstate[tailFxList] = "running"]_vars

\* one call was deferred behind a write that started within its own call
CallsDeferWhenBusyWitness ==
    \E h, j \in Ops :
        /\ pc[h] = "queued" /\ promise[h] = "pending"
        /\ kind[j] = "write" /\ Executing(j) /\ value = j
        /\ j \in before[h]

NoIdleGap ==
    isIdle => getQueueLength = 0

\* the mutex is idle after it ran a handler that had another one waiting
NoIdleGapWitness ==
    /\ isIdle
    /\ getQueueLength = 0
    /\ Cardinality({h \in Ops : promise[h] \in {"resolved", "rejected"}}) >= 2

\* the read handlers of batch b that were started and whose completion the
\* batch has not recorded yet
Pending(b) ==
    {r \in Ops : kind[r] = "read" /\ rbatch[r] = b
                    /\ pc[r] \in {"running", "settled", "resolved"}}

\* the reads of batch b that are not finished: waiting, started, or settled
\* with their completion not recorded
Members(b) == {r \in Ops : kind[r] = "read" /\ rbatch[r] = b /\ pc[r] # "idle"}

\* C16: while tailFxList is not null, the queue of the mutex is non-empty
\* exactly when the work item of that batch has not started, and empty exactly
\* when that work item is running and not released; so a read is appended
\* only to a batch that has not started and is started directly only in a
\* running, unreleased batch
QueueLengthDecides ==
    /\ [](tailFxList # Null =>
            /\ getQueueLength > 0 <=> bstate[tailFxList] = "queued"
            /\ getQueueLength = 0 <=> bstate[tailFxList] = "running")
    /\ [][\A h \in Ops : (Call(h) /\ kind'[h] = "read" /\ tailFxList # Null) =>
            /\ rbatch'[h] = tailFxList
            /\ pc'[h] = "queued" =>
                  /\ bstate[tailFxList] = "queued"
                  /\ fxList'[tailFxList] = Append(fxList[tailFxList], h)
            /\ pc'[h] = "running" =>
                  /\ bstate[tailFxList] = "running"
                  /\ fxList' = fxList]_vars

\* a read was appended to the list of a batch whose work item waits
QueueLengthDecidesWitness ==
    /\ tailFxList # Null
    /\ bstate[tailFxList] = "queued"
    /\ Len(fxList[tailFxList]) = 2
    /\ getQueueLength > 0

\* C17: the work item of a read batch is released once, by the step that
\* records the completion of its last member, whether that member was in the
\* list or joined the running batch; no member of a released batch is left,
\* and no write is executing while a read is
BatchRelease ==
    /\ [](\A b \in BatchIds : bstate[b] \in {"released", "free"} => Members(b) = {})
    /\ [](\A r, w \in Ops : (kind[r] = "read" /\ kind[w] = "write" /\ Executing(r))
                               => ~Executing(w))
    /\ [][\A b \in BatchIds :
            /\ (bstate[b] = "running" /\ bstate'[b] = "released") =>
                  /\ batchDone = b
                  /\ remaining = 1 /\ remaining' = 0
                  /\ Cardinality(Members(b)) = 1
                  /\ Members(b)' = {}
            /\ bstate[b] = "released" => bstate'[b] \in {"released", "free"}]_vars

\* a read has joined the running batch while the completion of the other
\* member, already settled, is not recorded yet, and a write is waiting
BatchReleaseWitness ==
    \E r, j, w \in Ops :
        /\ kind[r] = "read" /\ pc[r] = "resolved"
        /\ kind[j] = "read" /\ Executing(j) /\ rbatch[j] = rbatch[r]
        /\ Len(fxList[rbatch[r]]) = 1
        /\ remaining = 2
        /\ kind[w] = "write" /\ pc[w] = "queued"

\* C18: remaining is the number of read handlers of the batch that occupies
\* the mutex that were started and whose completion is not recorded; it is
\* never negative, and it is 0 while the mutex is idle or occupied by a write
PendingCount ==
    /\ remaining >= 0
    /\ remaining = Cardinality({r \in Ops : \E b \in BatchIds : r \in Pending(b)})
    /\ \A b \in BatchIds : Pending(b) # {} => bstate[b] = "running" /\ batchDone = b
    /\ isIdle => remaining = 0
    /\ (\E w \in Ops : kind[w] \in {"run", "write"} /\ pc[w] \in {"running", "settled"})
          => remaining = 0

\* two reads of the running batch are counted, one of them already settled
PendingCountWitness ==
    /\ remaining = 2
    /\ \E r, j \in Ops : Executing(r) /\ pc[j] = "resolved"

\* C19: when the completion of the last member of a batch is recorded,
\* tailFxList becomes null only if it refers to that batch; a later batch it
\* refers to is left in place, and every waiting read is in the list of a batch
\* whose work item waits in the queue
ConditionalReset ==
    /\ [][\A b \in BatchIds : (bstate[b] = "running" /\ bstate'[b] = "released") =>
            tailFxList' = IF tailFxList = b THEN Null ELSE tailFxList]_vars
    /\ [](\A r \in Ops : (kind[r] = "read" /\ pc[r] = "queued") =>
            /\ bstate[rbatch[r]] = "queued"
            /\ r \in Range(fxList[rbatch[r]])
            /\ <<"b", rbatch[r]>> \in Range(queue))

\* a batch was released while tailFxList refers to a later batch, to which a
\* read was appended since
ConditionalResetWitness ==
    \E b \in BatchIds :
        /\ bstate[b] = "released"
        /\ tailFxList # Null /\ tailFxList # b
        /\ bstate[tailFxList] = "queued"
        /\ Len(fxList[tailFxList]) = 2

\* C20: neither assertion of the code fails: next() is not entered while
\* running is true, and batchDone is set when the count of a batch reaches 0
AssertionsUnreachable ==
    /\ thrown = {}
    /\ remaining > 0 => batchDone # Null

\* a batch was released through batchDone and the mutex moved on to a write
AssertionsUnreachableWitness ==
    /\ thrown = {}
    /\ batchDone # Null
    /\ bstate[batchDone] = "free"
    /\ \E w \in Ops : kind[w] = "write" /\ Executing(w)

====
